---- MODULE Spec2Model ----
(***************************************************************************)
(* Model of src/disassembler.cpp: the four JNI entry points of             *)
(* com.example.soanalyzer.utils.NativeDisassembler.                        *)
(*                                                                         *)
(* A Java byte[] is a sequence of jbyte values (signed, -128..127).  Each  *)
(* native method is one action: it takes the caller's array, makes its JNI *)
(* calls (recorded in log), and leaves its return value in result.  The    *)
(* loop of extractStrings is taken one iteration at a time.                *)
(***************************************************************************)
EXTENDS Integers, Sequences, FiniteSets, TLC

VARIABLES given,      \* the byte[] as the caller filled it before any call
          data,       \* the byte[] on the Java heap (what the caller sees now)
          minLength,  \* jint argument of extractStrings
          address,    \* jlong argument of disassembleARM64
          op,         \* the native method that returned last
          result,     \* its return value
          log,        \* the JNI calls it made on the array, in order
          hashes,     \* every value calculateHash has returned so far
          pc,         \* "idle", or "loop" inside the loop of extractStrings
          i,          \* extractStrings: the loop index
          current,    \* extractStrings: the accumulator
          strings     \* extractStrings: the vector of completed strings

vars == <<given, data, minLength, address, op, result, log, hashes,
          pc, i, current, strings>>

locals == <<i, current, strings>>

-----------------------------------------------------------------------------
(* Bounds of the explored inputs *)

MaxLen == 4        \* longest buffer over ScanBytes
MaxEdgeLen == 2    \* longest buffer over EdgeBytes
MaxMin == 3        \* largest minLength
MaxTail == 21      \* longest ELF-like buffer

-----------------------------------------------------------------------------
(* C types *)

INT_MIN == -2147483647 - 1

\* jbyte is a signed 8-bit integer
JByte == -128..127

\* (unsigned char)b
ToUnsignedChar(b) == b % 256

\* bytes[j] with the C (0-based) index
At(bytes, j) == bytes[j + 1]

\* Conversion of a 32-bit signed value to size_t (the usual arithmetic
\* conversions of `current.length() >= minLength`).  size_t is 32 or 64 bits
\* wide; a negative value becomes 2^w + x, which has a bit at or above bit 31
\* set.  The value is kept as (high, low): high = 1 iff some bit at or above
\* bit 31 is set, low = the low 31 bits.  Lengths are below 2^31, so the order
\* of a length and a converted jint is the order of these pairs for both
\* widths.
ToSizeT(x) == IF x < 0 THEN [high |-> 1, low |-> x - INT_MIN]
                       ELSE [high |-> 0, low |-> x]

\* a >= b on size_t
SizeGE(a, b) == a.high > b.high \/ (a.high = b.high /\ a.low >= b.low)

-----------------------------------------------------------------------------
(* JNI *)

JNI_ABORT == 2

\* a null reference: a value that is no array
Null == <<"nullptr">>

EvGet == <<"GetByteArrayElements", 0>>
EvRead(j) == <<"read", j>>
EvRelease(mode) == <<"ReleaseByteArrayElements", mode>>
EvReturn == <<"return", 0>>

\* The array after ReleaseByteArrayElements(array, elems, mode): a copy is
\* written back unless the mode is JNI_ABORT; a pinned array is the elements.
ReleaseByteArrayElements(arr, elems, mode, isCopy) ==
    IF isCopy /\ mode = JNI_ABORT THEN arr ELSE elems

\* NewStringUTF(s.c_str()): the characters of s before its first 0 character
RECURSIVE CStr(_)
CStr(s) == IF s = <<>> \/ Head(s) = 0 THEN <<>>
           ELSE <<Head(s)>> \o CStr(Tail(s))

-----------------------------------------------------------------------------
(* disassembleARM64, lines 22-42 *)

\* NewObjectArray(0, String, nullptr): the placeholder result
DisassembleResult(bytes, codeLength, addr) == <<>>

DisassembleLog == <<EvGet, EvRelease(JNI_ABORT), EvReturn>>

-----------------------------------------------------------------------------
(* parseELFHeader, lines 53-83 *)

MinHeaderLength == 20

\* the condition without the test of bytes[3]
HeaderRejected_NoF(bytes, dataLength) ==
    \/ dataLength < MinHeaderLength
    \/ At(bytes, 0) # 127
    \/ At(bytes, 1) # 69
    \/ At(bytes, 2) # 76

\* the condition of the if at lines 63-64 (|| evaluates left to right and
\* stops at the first true operand)
HeaderRejected(bytes, dataLength) ==
    \/ dataLength < MinHeaderLength
    \/ At(bytes, 0) # 127
    \/ At(bytes, 1) # 69
    \/ At(bytes, 2) # 76
    \/ At(bytes, 3) # 70

\* the elements that condition reads
ValidationReads(bytes, dataLength) ==
    IF dataLength < MinHeaderLength THEN <<>>
    ELSE IF At(bytes, 0) # 127 THEN <<EvRead(0)>>
    ELSE IF At(bytes, 1) # 69 THEN <<EvRead(0), EvRead(1)>>
    ELSE IF At(bytes, 2) # 76 THEN <<EvRead(0), EvRead(1), EvRead(2)>>
    ELSE <<EvRead(0), EvRead(1), EvRead(2), EvRead(3)>>

\* jint result_data[] = { bytes[4], ..., bytes[8] }: each jbyte is promoted
\* to jint with its sign
ResultData(bytes) == [j \in 1..5 |-> At(bytes, 3 + j)]

ParseELFHeaderResult(bytes, dataLength) ==
    IF HeaderRejected(bytes, dataLength) THEN Null ELSE ResultData(bytes)

\* the early return without the release of line 65
RejectedLog_NoRelease(bytes, dataLength) ==
    <<EvGet>> \o ValidationReads(bytes, dataLength) \o <<EvReturn>>

\* lines 59-66: the JNI calls of the failing path
RejectedLog(bytes, dataLength) ==
    <<EvGet>> \o ValidationReads(bytes, dataLength)
              \o <<EvRelease(JNI_ABORT), EvReturn>>

\* lines 59-82: the JNI calls of the successful path
AcceptedLog(bytes, dataLength) ==
    <<EvGet>> \o ValidationReads(bytes, dataLength)
              \o [j \in 1..5 |-> EvRead(3 + j)]
              \o <<EvRelease(JNI_ABORT), EvReturn>>

ParseELFHeaderLog(bytes, dataLength) ==
    IF HeaderRejected(bytes, dataLength) THEN RejectedLog(bytes, dataLength)
    ELSE AcceptedLog(bytes, dataLength)

-----------------------------------------------------------------------------
(* extractStrings, lines 95-135 *)

\* c >= 32 && c < 126
IsPrintable_Exclusive(c) == c >= 32 /\ c < 126

\* c >= 32 && c <= 126
IsPrintable(c) == c >= 32 /\ c <= 126

\* the body with every non-printable byte taken as a terminator
ScanStep_AnyTerminator(b, cur, strs, minLen) ==
    LET c == ToUnsignedChar(b) IN
    IF IsPrintable(c)
      THEN [current |-> Append(cur, c), strings |-> strs]
    ELSE IF SizeGE(ToSizeT(Len(cur)), ToSizeT(minLen))
      THEN [current |-> <<>>, strings |-> Append(strs, cur)]
    ELSE [current |-> <<>>, strings |-> strs]

\* The body of the loop at lines 108-121 on the byte b: the new accumulator
\* and vector
ScanStep(b, cur, strs, minLen) ==
    LET c == ToUnsignedChar(b) IN
    IF IsPrintable(c)
      THEN [current |-> Append(cur, c), strings |-> strs]
    ELSE IF c = 0 /\ SizeGE(ToSizeT(Len(cur)), ToSizeT(minLen))
      THEN [current |-> <<>>, strings |-> Append(strs, cur)]
    ELSE [current |-> <<>>, strings |-> strs]

\* lines 124-131: one Java string per element of the vector
NewStringArray(strs) == [n \in 1..Len(strs) |-> CStr(strs[n])]

-----------------------------------------------------------------------------
(* calculateHash, lines 146-155 *)

\* the literal with one character missing
PlaceholderHash_Short == [j \in 1..63 |-> "0"]

\* the literal of line 154, one character per element
PlaceholderHash == [j \in 1..64 |-> "0"]

CalculateHashResult(bytes) == PlaceholderHash

-----------------------------------------------------------------------------
(* Inputs *)

RECURSIVE SeqsUpTo(_, _)
SeqsUpTo(S, n) ==
    IF n = 0 THEN {<<>>}
    ELSE LET shorter == SeqsUpTo(S, n - 1)
         IN  shorter \cup {Append(s, x) : s \in {t \in shorter : Len(t) = n - 1}, x \in S}

\* 0, a control byte, '!', 'H', 'i'
ScanBytes == {0, 10, 33, 72, 105}

\* the ends of the printable range and a byte with the top bit set
EdgeBytes == {0, 31, 32, 126, 127, -56}

ScanBuffers == SeqsUpTo(ScanBytes, MaxLen) \cup SeqsUpTo(EdgeBytes, MaxEdgeLen)

MinLengths == {INT_MIN, -1} \cup 0..MaxMin

ElfMagic == <<127, 69, 76, 70>>

\* 0x7F 'E' 'L' 'F' 2 1 1 0 0 and zero padding, n bytes in all
ElfImage(n) == [j \in 1..n |-> IF j <= 4 THEN ElfMagic[j]
                               ELSE IF j = 5 THEN 2
                               ELSE IF j \in {6, 7} THEN 1 ELSE 0]

\* s with the byte at C index j replaced by b
WithByte(s, j, b) == [s EXCEPT ![j + 1] = b]

ElfBuffers ==
    \* truncated and padded images
    {ElfImage(n) : n \in 0..MaxTail}
    \* one byte of the magic or of the five fields set to any value
    \cup {WithByte(ElfImage(MinHeaderLength), j, b) : j \in 0..8, b \in JByte}
    \* any combination of corrupted magic bytes
    \cup {[j \in 1..n |-> IF j <= 4 /\ j \in bad THEN 0 ELSE ElfImage(n)[j]] :
             bad \in SUBSET (1..4), n \in (MinHeaderLength - 1)..MaxTail}

Addresses == {0, 4096}

\* minLength of the calls that are not about strings
DefaultMinLength == 4

Inputs ==
    [data : ScanBuffers, minLength : MinLengths, address : {0}]
    \cup [data : ElfBuffers, minLength : {DefaultMinLength}, address : {0}]
    \cup [data : SeqsUpTo(ScanBytes, MaxEdgeLen), minLength : {DefaultMinLength},
          address : Addresses]

-----------------------------------------------------------------------------
(* The program *)

Init ==
    /\ \E input \in Inputs :
          /\ given = input.data
          /\ data = input.data
          /\ minLength = input.minLength
          /\ address = input.address
    /\ op = "none"
    /\ result = Null
    /\ log = <<>>
    /\ hashes = {}
    /\ pc = "idle"
    /\ i = 0
    /\ current = <<>>
    /\ strings = <<>>

\* lines 22-42
disassembleARM64 ==
    /\ pc = "idle"
    /\ \E isCopy \in BOOLEAN :
          LET codeBytes == data
              codeLength == Len(data)
          IN  /\ op' = "disassembleARM64"
              /\ result' = DisassembleResult(codeBytes, codeLength, address)
              /\ log' = DisassembleLog
              /\ data' = ReleaseByteArrayElements(data, codeBytes, JNI_ABORT, isCopy)
    /\ UNCHANGED <<given, minLength, address, hashes, pc, locals>>

\* lines 53-83
parseELFHeader ==
    /\ pc = "idle"
    /\ \E isCopy \in BOOLEAN :
          LET bytes == data
              dataLength == Len(data)
          IN  /\ op' = "parseELFHeader"
              /\ result' = ParseELFHeaderResult(bytes, dataLength)
              /\ log' = ParseELFHeaderLog(bytes, dataLength)
              /\ data' = ReleaseByteArrayElements(data, bytes, JNI_ABORT, isCopy)
    /\ UNCHANGED <<given, minLength, address, hashes, pc, locals>>

\* lines 102-106: the call, up to the loop
extractStringsCall ==
    /\ pc = "idle"
    /\ pc' = "loop"
    /\ op' = "none"
    /\ result' = Null
    /\ log' = <<EvGet>>
    /\ i' = 0
    /\ current' = <<>>
    /\ strings' = <<>>
    /\ UNCHANGED <<given, data, minLength, address, hashes>>

\* lines 108-121: one iteration
extractStringsLoop ==
    /\ pc = "loop"
    /\ i < Len(data)
    /\ LET bytes == data
           s == ScanStep(At(bytes, i), current, strings, minLength)
       IN  /\ current' = s.current
           /\ strings' = s.strings
    /\ log' = Append(log, EvRead(i))
    /\ i' = i + 1
    /\ UNCHANGED <<given, data, minLength, address, op, result, hashes, pc>>

\* lines 123-134: after the loop
extractStringsReturn ==
    /\ pc = "loop"
    /\ ~(i < Len(data))
    /\ \E isCopy \in BOOLEAN :
          LET bytes == data
          IN  data' = ReleaseByteArrayElements(data, bytes, JNI_ABORT, isCopy)
    /\ result' = NewStringArray(strings)
    /\ log' = log \o <<EvRelease(JNI_ABORT), EvReturn>>
    /\ op' = "extractStrings"
    /\ pc' = "idle"
    /\ i' = 0
    /\ current' = <<>>
    /\ strings' = <<>>
    /\ UNCHANGED <<given, minLength, address, hashes>>

\* lines 146-155
calculateHash ==
    /\ pc = "idle"
    /\ op' = "calculateHash"
    /\ result' = CalculateHashResult(data)
    /\ log' = <<EvReturn>>
    /\ hashes' = hashes \cup {CalculateHashResult(data)}
    /\ UNCHANGED <<given, data, minLength, address, pc, locals>>

Next ==
    \/ disassembleARM64
    \/ parseELFHeader
    \/ extractStringsCall
    \/ extractStringsLoop
    \/ extractStringsReturn
    \/ calculateHash

Spec == Init /\ [][Next]_vars

-----------------------------------------------------------------------------
(* Properties *)

\* the 8-bit value (0..255) of a jbyte
Raw(b) == IF b < 0 THEN b + 256 ELSE b

RawMagic == <<127, 69, 76, 70>>

MagicMatches(B) == \A j \in 1..4 : Raw(B[j]) = RawMagic[j]

\* C1: parseELFHeader returns a non-null result iff the buffer has at least
\* 20 bytes and starts with 0x7F 'E' 'L' 'F'; a failing parse returns null,
\* never a partially filled result.
C1_ParseSucceedsIffMagic ==
    op = "parseELFHeader" =>
       /\ (result # Null) <=> (Len(given) >= 20 /\ MagicMatches(given))
       /\ result # Null => (DOMAIN result = 1..5 /\ \A j \in 1..5 : result[j] \in Int)

\* exactly one byte of the magic of a 20-byte buffer is corrupted, and the
\* parse failed
C1_Witness ==
    /\ op = "parseELFHeader"
    /\ result = Null
    /\ Len(given) = 20
    /\ Cardinality({j \in 1..4 : Raw(given[j]) # RawMagic[j]}) = 1

\* byte values 32..126
InPrintableRange(v) == v \in 32..126

\* the string s lies in B at C offset start and the byte after it is 0
TerminatedAt(B, s, start) ==
    /\ start + Len(s) < Len(B)
    /\ \A k \in 1..Len(s) : Raw(B[start + k]) = s[k]
    /\ B[start + Len(s) + 1] = 0

\* C2: every string returned by extractStrings has length >= minLength,
\* consists only of bytes in 32..126, and occupies a contiguous range of the
\* buffer whose next byte exists and is 0.
C2_StringsTerminated ==
    op = "extractStrings" =>
       \A n \in DOMAIN result :
          /\ Len(result[n]) >= minLength
          /\ \A k \in DOMAIN result[n] : InPrintableRange(result[n][k])
          /\ \E start \in 0..Len(given) : TerminatedAt(given, result[n], start)

\* a string of two or more characters has been returned
C2_Witness ==
    /\ op = "extractStrings"
    /\ \E n \in DOMAIN result : Len(result[n]) >= 2 /\ Len(result[n]) >= minLength

\* C3: on success the five fields are the raw 8-bit values (0..255) of the
\* bytes at offsets 4..8, in that order.
C3_FieldsAreRawBytes ==
    (op = "parseELFHeader" /\ result # Null) =>
       /\ DOMAIN result = 1..5
       /\ \A j \in 0..4 : result[j + 1] = Raw(given[4 + j + 1])

\* C4: every string returned by extractStrings is non-empty.
C4_StringsNonEmpty ==
    op = "extractStrings" => \A n \in DOMAIN result : Len(result[n]) >= 1

\* the raw bytes of a list of instruction records, concatenated
RECURSIVE ConcatRawBytes(_)
ConcatRawBytes(instructions) ==
    IF instructions = <<>> THEN <<>>
    ELSE Head(instructions).rawBytes \o ConcatRawBytes(Tail(instructions))

\* C5: the raw bytes of the instructions returned by disassembleARM64,
\* concatenated in order, are the prefix of the buffer whose length is the
\* largest multiple of 4 that is <= the buffer's length.
C5_DecodeCoversPrefix ==
    op = "disassembleARM64" =>
       ConcatRawBytes(result) =
          SubSeq(given, 1, 4 * (Len(given) \div 4))

\* SHA-256 of the empty input
Sha256Empty ==
    <<"e", "3", "b", "0", "c", "4", "4", "2", "9", "8", "f", "c", "1",
    "c", "1", "4", "9", "a", "f", "b", "f", "4", "c", "8", "9", "9", "6",
    "f", "b", "9", "2", "4", "2", "7", "a", "e", "4", "1", "e", "4", "6",
    "4", "9", "b", "9", "3", "4", "c", "a", "4", "9", "5", "9", "9", "1",
    "b", "7", "8", "5", "2", "b", "8", "5", "5">>

\* C6: calculateHash of the empty buffer is the published SHA-256
\* empty-input digest.
C6_EmptyDigest ==
    (op = "calculateHash" /\ given = <<>>) => result = Sha256Empty

HexChars == {"0", "1", "2", "3", "4", "5", "6", "7", "8", "9",
             "a", "b", "c", "d", "e", "f"}

\* C7: the string returned by calculateHash has exactly 64 characters, each
\* in 0-9 or a-f, and repeated calls on the same buffer return the same
\* string.
C7_DigestShape ==
    /\ op = "calculateHash" =>
          /\ Len(result) = 64
          /\ \A k \in DOMAIN result : result[k] \in HexChars
          /\ result \in hashes
    /\ Cardinality(hashes) <= 1

\* calculateHash has returned
C7_Witness == op = "calculateHash" /\ hashes # {} /\ Len(result) > 0

\* the length of the maximal run of printable bytes that ends right before
\* the byte at position z (1-based) of B
RunLengthBefore(B, z) ==
    CHOOSE L \in 0..(z - 1) :
       /\ \A k \in (z - L)..(z - 1) : InPrintableRange(Raw(B[k]))
       /\ L = z - 1 \/ ~InPrintableRange(Raw(B[z - L - 1]))

\* the positions of the 0 bytes that end a run of at least m bytes
Terminators(B, m) ==
    {z \in 1..Len(B) : B[z] = 0 /\ RunLengthBefore(B, z) >= m}

\* the runs ended by those 0 bytes, in ascending offset
TerminatedRuns(B, m) ==
    LET T == Terminators(B, m)
    IN  [n \in 1..Cardinality(T) |->
           LET z == CHOOSE y \in T : Cardinality({x \in T : x < y}) = n - 1
               L == RunLengthBefore(B, z)
           IN  [k \in 1..L |-> Raw(B[z - L + k - 1])]]

\* C8: for a threshold m >= 1 the result of extractStrings is exactly the
\* list, in ascending offset, of the maximal runs of printable bytes that
\* have length >= m and are immediately followed by a 0 byte; so
\* ([72,105,0,33], 3) gives the empty list and ([72,105,33,0], 2) gives
\* ["Hi!"].
C8_ExactlyTerminatedRuns ==
    (op = "extractStrings" /\ minLength >= 1) =>
       /\ result = TerminatedRuns(given, minLength)
       /\ (given = <<72, 105, 0, 33>> /\ minLength = 3) => result = <<>>
       /\ (given = <<72, 105, 33, 0>> /\ minLength = 2) => result = <<<<72, 105, 33>>>>

\* a long enough run is returned although the buffer also holds a run that
\* is not followed by 0
C8_Witness ==
    /\ op = "extractStrings"
    /\ minLength >= 1
    /\ Len(result) = 1
    /\ Len(given) > Len(result[1]) + 1

\* C9: when the loop of extractStrings reads a 0 byte, the accumulated run
\* is emitted exactly when its length is >= minLength as integers, also for
\* a negative minLength.
C9_EmittedIffAtLeastMin ==
    [][(pc = "loop" /\ pc' = "loop" /\ data[i + 1] = 0) =>
          ((strings' = Append(strings, current)) <=> (Len(current) >= minLength))]_vars

IsRead(e) == e[1] = "read"

\* C10: disassembleARM64, parseELFHeader and extractStrings release the
\* array's elements exactly once on every path, after the last read of the
\* bytes and right before returning, in mode JNI_ABORT; the caller's buffer
\* is unchanged.
C10_ReleasedOnceAborting ==
    /\ op \in {"disassembleARM64", "parseELFHeader", "extractStrings"} =>
          LET n == Len(log) IN
          /\ n >= 3
          /\ log[1] = EvGet
          /\ \A k \in 2..(n - 2) : IsRead(log[k])
          /\ log[n - 1] = <<"ReleaseByteArrayElements", 2>>
          /\ log[n] = EvReturn
    /\ data = given

\* parseELFHeader has taken its early failure return
C10_Witness ==
    /\ op = "parseELFHeader"
    /\ result = Null
    /\ Len(given) >= 20
    /\ \E k \in DOMAIN log : IsRead(log[k])

====
